---- MODULE Spec2Model ----
(***************************************************************************)
(* A model of splitterPDF's page classification and sheet bucketing code   *)
(* (utils/pdfUtils, src/unnamed/part_000).                                  *)
(*                                                                         *)
(* The pure functions are operators computed the way the TypeScript        *)
(* computes them (Map and Set as JavaScript keeps them, the loops as       *)
(* recursions over the loop index).  Each function has a specification of  *)
(* its own whose Init draws the arguments from bounded sets and whose      *)
(* actions call the function:                                              *)
(*   SpecSplit   calculateSmartSplitStats                                  *)
(*   SpecPixel   analyzeImagePixelData                                     *)
(*   SpecFormat  formatPageRanges                                          *)
(* Spec is the usePDFAnalyzer hook (src/unnamed/part_002) as the App      *)
(* (src/unnamed/part_001) drives it; SpecFair is Spec when every promise   *)
(* a call awaits settles.  SpecView is the App's main view (the category   *)
(* filter, the zoom modal, the grid's selection) over a finished analysis. *)
(***************************************************************************)
EXTENDS Integers, Sequences, FiniteSets, TLC

VARIABLES
    \* ---- a caller of calculateSmartSplitStats ----
    allPagesStatus,   \* the argument allPagesStatus: a sequence of {pageNumber, isColor}
    totalPages,       \* the argument totalPages
    splitOutcome,     \* how the last call ended: NoOutcome, or a returned value
    prevOutcome,      \* how the call before the last one ended
    splitPc,          \* the caller's position
    \* ---- a caller of analyzeImagePixelData ----
    data,               \* the argument data: the elements of a Uint8ClampedArray
    varianceThreshold,  \* the argument varianceThreshold
    coverageThreshold,  \* the argument coverageThreshold, a rational [n, d]
    pixelOutcome,       \* how the call ended
    pixelPc,            \* the caller's position
    \* ---- a caller of formatPageRanges ----
    pageNumbers,        \* the argument pageNumbers
    formatOutcome,      \* how the last call ended
    prevFormatOutcome,  \* how the call before the last one ended
    formatPc,           \* the caller's position
    \* ---- usePDFAnalyzer ----
    status,     \* the AnalysisStatus
    progress,   \* {current, total}
    pages,      \* the PageData list
    fileName,   \* the file's name, or Null
    error,      \* the error message, or Null
    abortRef,   \* abortRef.current
    runs,       \* the analyzeFile calls in flight: each call's position and locals
    lastCall,   \* the operation of the hook its user called last
    \* ---- App and ThumbnailGrid ----
    zoomedPageNumber,     \* App: the zoomed page's number, or NoNumber
    viewCategory,         \* App: the ViewCategory
    selectedPages,        \* ThumbnailGrid: the Set of selected page numbers
    lastSelectedPageRef   \* ThumbnailGrid: lastSelectedPageRef.current, or NoNumber

splitVars == <<allPagesStatus, totalPages, splitOutcome, prevOutcome, splitPc>>
pixelVars == <<data, varianceThreshold, coverageThreshold, pixelOutcome, pixelPc>>
formatVars == <<pageNumbers, formatOutcome, prevFormatOutcome, formatPc>>
hookVars == <<status, progress, pages, fileName, error, abortRef, runs, lastCall>>
viewVars == <<zoomedPageNumber, viewCategory, selectedPages, lastSelectedPageRef>>
vars == <<splitVars, pixelVars, formatVars, hookVars, viewVars>>

(***************************************************************************)
(* Bounds of the model.                                                    *)
(***************************************************************************)
\* The longest allPagesStatus list Init draws.
MaxLen == 3
\* The largest totalPages (and the largest pageNumber) Init draws.
MaxTotal == 4
\* The longest pixel buffer Init draws, in array elements (4 to a pixel).
MaxDataLen == 8
\* The longest pageNumbers array Init draws.
MaxNumbers == 4
\* The most pages a document has.
MaxPages == 2

\* Page numbers of the drawn lists: negative, zero, in and out of 1..totalPages.
PageNumbers == (0 - 1)..MaxTotal
PageStatus == [pageNumber : PageNumbers, isColor : BOOLEAN]

SeqsUpTo(S, n) == UNION {[1..k -> S] : k \in 0..n}

\* No call has been made or has ended yet.
NoOutcome == [kind |-> "none"]
\* A call that ran to its return statement.
Returned(v) == [kind |-> "return", value |-> v]

(***************************************************************************)
(* JavaScript's Map, Set and Array.prototype.sort, as the code uses them.  *)
(***************************************************************************)
\* new Set<number>(): the elements in insertion order.
EmptySet == <<>>

\* Set.prototype.add: a value already in the set is not added again.
SetAdd(s, x) == IF \E k \in 1..Len(s) : s[k] = x THEN s ELSE Append(s, x)

\* One insertion of the sort: x placed before the first larger element.
RECURSIVE InsertAsc(_, _)
InsertAsc(s, x) ==
    IF s = <<>> THEN <<x>>
    ELSE IF x < Head(s) THEN <<x>> \o s
    ELSE <<Head(s)>> \o InsertAsc(Tail(s), x)

\* Array.from(set).sort((a, b) => a - b): ascending numeric order.
RECURSIVE SortAscMutDescending(_)
SortAscMutDescending(s) ==
    IF s = <<>> THEN <<>>
    ELSE SortAscMutDescending(SelectSeq(Tail(s), LAMBDA y : y > Head(s)))
         \o <<Head(s)>>
         \o SortAscMutDescending(SelectSeq(Tail(s), LAMBDA y : y <= Head(s)))

RECURSIVE SortAsc(_)
SortAsc(s) ==
    IF s = <<>> THEN <<>> ELSE InsertAsc(SortAsc(Tail(s)), Head(s))

\* allPagesStatus.forEach(p => pageMap.set(p.pageNumber, p.isColor)):
\* the Map after entries 1..k were set in order; a later set of the same key
\* replaces the value.
RECURSIVE PageMapAfter(_, _)
PageMapAfter(entries, k) ==
    IF k = 0 THEN <<>>
    ELSE LET m == PageMapAfter(entries, k - 1)
             p == entries[k]
         IN  [n \in DOMAIN m \cup {p.pageNumber} |->
                 IF n = p.pageNumber THEN p.isColor ELSE m[n]]

\* A Map in which the first set of a key is kept (a changed PageMap).
RECURSIVE PageMapMutFirstWins(_)
PageMapMutFirstWins(entries) ==
    IF entries = <<>> THEN <<>>
    ELSE LET m == PageMapMutFirstWins(Tail(entries))
             p == Head(entries)
         IN  [n \in DOMAIN m \cup {p.pageNumber} |->
                 IF n = p.pageNumber THEN p.isColor ELSE m[n]]

\* A Map keyed by the entry's position in the list (a changed PageMap).
PageMapMutByIndex(entries) == [n \in 1..Len(entries) |-> entries[n].isColor]

PageMap(entries) == PageMapAfter(entries, Len(entries))

\* pageMap.get(page) || false: undefined (no entry) becomes false.
GetOrFalseMutDefaultColor(pageMap, page) ==
    IF page \in DOMAIN pageMap THEN pageMap[page] ELSE TRUE

GetOrFalse(pageMap, page) ==
    IF page \in DOMAIN pageMap THEN pageMap[page] ELSE FALSE

(***************************************************************************)
(* calculateSmartSplitStats                                                *)
(***************************************************************************)
\* The four Sets before the loop.
EmptyBuckets ==
    [doubleColorSet |-> EmptySet, doubleBWSet |-> EmptySet,
     mixedColorSet |-> EmptySet, mixedBWSet |-> EmptySet]

\* pageB <= totalPages
HasBMutStrict(pageB, total) == pageB < total

HasB(pageB, total) == pageB <= total

\* The last single page put in a double Set, as if it were a whole sheet (a
\* changed SinglePage).
SinglePageMutAsDouble(b, pageA, isAColor) ==
    IF isAColor
    THEN [b EXCEPT !.doubleColorSet = SetAdd(@, pageA)]
    ELSE [b EXCEPT !.doubleBWSet = SetAdd(@, pageA)]

\* The branch for the last single page: pageA alone into a mixed Set.
SinglePage(b, pageA, isAColor) ==
    IF isAColor
    THEN [b EXCEPT !.mixedColorSet = SetAdd(@, pageA)]
    ELSE [b EXCEPT !.mixedBWSet = SetAdd(@, pageA)]

\* The sheet's branch when both pages exist, with a double-color test that
\* accepts a sheet with one color page (a changed SheetStatus).
SheetStatusMutEitherColor(b, pageA, pageB, isAColor, isBColor) ==
    IF isAColor \/ isBColor
    THEN [b EXCEPT !.doubleColorSet = SetAdd(SetAdd(@, pageA), pageB)]
    ELSE [b EXCEPT !.doubleBWSet = SetAdd(SetAdd(@, pageA), pageB)]

\* The sheet's branch without the double B&W case: two B&W pages fall to the
\* mixed branch (a changed SheetStatus).
SheetStatusMutNoDoubleBW(b, pageA, pageB, isAColor, isBColor) ==
    IF isAColor /\ isBColor
    THEN [b EXCEPT !.doubleColorSet = SetAdd(SetAdd(@, pageA), pageB)]
    ELSE LET b1 == IF isAColor
                   THEN [b EXCEPT !.mixedColorSet = SetAdd(@, pageA)]
                   ELSE [b EXCEPT !.mixedBWSet = SetAdd(@, pageA)]
         IN  IF isBColor
             THEN [b1 EXCEPT !.mixedColorSet = SetAdd(@, pageB)]
             ELSE [b1 EXCEPT !.mixedBWSet = SetAdd(@, pageB)]

\* The mixed branch putting the two pages in each other's list (a changed
\* SheetStatus).
SheetStatusMutMixedSwapped(b, pageA, pageB, isAColor, isBColor) ==
    IF isAColor /\ isBColor
    THEN [b EXCEPT !.doubleColorSet = SetAdd(SetAdd(@, pageA), pageB)]
    ELSE IF ~isAColor /\ ~isBColor
    THEN [b EXCEPT !.doubleBWSet = SetAdd(SetAdd(@, pageA), pageB)]
    ELSE LET b1 == IF isBColor
                   THEN [b EXCEPT !.mixedColorSet = SetAdd(@, pageA)]
                   ELSE [b EXCEPT !.mixedBWSet = SetAdd(@, pageA)]
         IN  IF isAColor
             THEN [b1 EXCEPT !.mixedColorSet = SetAdd(@, pageB)]
             ELSE [b1 EXCEPT !.mixedBWSet = SetAdd(@, pageB)]

\* "Check Sheet Status": the branch when both pages of the sheet exist.
SheetStatus(b, pageA, pageB, isAColor, isBColor) ==
    IF isAColor /\ isBColor
    THEN [b EXCEPT !.doubleColorSet = SetAdd(SetAdd(@, pageA), pageB)]
    ELSE IF ~isAColor /\ ~isBColor
    THEN [b EXCEPT !.doubleBWSet = SetAdd(SetAdd(@, pageA), pageB)]
    ELSE LET b1 == IF isAColor
                   THEN [b EXCEPT !.mixedColorSet = SetAdd(@, pageA)]
                   ELSE [b EXCEPT !.mixedBWSet = SetAdd(@, pageA)]
         IN  IF isBColor
             THEN [b1 EXCEPT !.mixedColorSet = SetAdd(@, pageB)]
             ELSE [b1 EXCEPT !.mixedBWSet = SetAdd(@, pageB)]

\* One iteration of the loop over the sheets, for the odd page i.
SheetStep(b, pageMap, i, total) ==
    LET pageA == i
        pageB == i + 1
        isAColor == GetOrFalse(pageMap, pageA)
        hasB == HasB(pageB, total)
        isBColor == IF hasB THEN GetOrFalse(pageMap, pageB) ELSE FALSE
    IN  IF ~hasB
        THEN SinglePage(b, pageA, isAColor)
        ELSE SheetStatus(b, pageA, pageB, isAColor, isBColor)

\* for (let i = 1; i <= totalPages; i += 2): the Sets after the iterations
\* from i on.
RECURSIVE SheetLoop(_, _, _, _)
SheetLoop(b, pageMap, i, total) ==
    IF i <= total
    THEN SheetLoop(SheetStep(b, pageMap, i, total), pageMap, i + 2, total)
    ELSE b

\* The returned object: each Set as a sorted array.
SplitResult(b) ==
    [doubleColorSheets |-> SortAsc(b.doubleColorSet),
     doubleBWSheets    |-> SortAsc(b.doubleBWSet),
     mixedColorPages   |-> SortAsc(b.mixedColorSet),
     mixedBWPages      |-> SortAsc(b.mixedBWSet)]

calculateSmartSplitStats(entries, total) ==
    SplitResult(SheetLoop(EmptyBuckets, PageMap(entries), 1, total))

(***************************************************************************)
(* JavaScript numbers, as far as analyzeImagePixelData meets them.         *)
(*                                                                         *)
(* A number is NaN, +Infinity or a rational n/d with d > 0.  The doubles   *)
(* the code computes are quotients of integers below 2^53 with small       *)
(* denominators; division rounds to nearest and so keeps the order of two  *)
(* quotients that differ, and maps equal quotients to the same double, so  *)
(* a comparison of the doubles is the comparison of the rationals.         *)
(***************************************************************************)
NaN == [kind |-> "nan", n |-> 0, d |-> 1]
Infinity == [kind |-> "inf", n |-> 1, d |-> 1]
Num(n) == [kind |-> "fin", n |-> n, d |-> 1]

\* An index past the end of a typed array reads undefined, which arithmetic
\* converts to NaN.
Undefined == NaN

\* data[i], i counted from 0.
At(d, i) == IF i < Len(d) THEN Num(d[i + 1]) ELSE Undefined

\* The difference without Math.abs (a changed AbsDiff).
AbsDiffMutSigned(x, y) ==
    IF x.kind = "nan" \/ y.kind = "nan" THEN NaN ELSE Num(x.n - y.n)

\* Math.abs(x - y) of two array elements.
AbsDiff(x, y) ==
    IF x.kind = "nan" \/ y.kind = "nan" THEN NaN
    ELSE Num(IF x.n >= y.n THEN x.n - y.n ELSE y.n - x.n)

\* Math.max(a, b, c) of three such differences: NaN if any of them is.
Max3(a, b, c) ==
    IF a.kind = "nan" \/ b.kind = "nan" \/ c.kind = "nan" THEN NaN
    ELSE Num(IF a.n >= b.n /\ a.n >= c.n THEN a.n
             ELSE IF b.n >= c.n THEN b.n ELSE c.n)

\* a / b for integers a >= 0, b >= 0 and a quotient b = bn/bd.
Div(a, bn, bd) ==
    IF bn = 0 THEN (IF a = 0 THEN NaN ELSE Infinity)
    ELSE [kind |-> "fin", n |-> a * bd, d |-> bn]

\* x <= t for a threshold t = t.n/t.d: false when x is NaN.
JsLe(x, t) ==
    CASE x.kind = "nan" -> FALSE
      [] x.kind = "inf" -> FALSE
      [] OTHER -> x.n * t.d <= t.n * x.d

\* The comparison written as a negated <= (a changed JsGt): true of NaN.
JsGtMutNotLe(x, t) == ~JsLe(x, t)

\* The comparison written >= (a changed JsGt).
JsGtMutGe(x, t) ==
    CASE x.kind = "nan" -> FALSE
      [] x.kind = "inf" -> TRUE
      [] OTHER -> x.n * t.d >= t.n * x.d

\* x > t for a threshold t = t.n/t.d: false when x is NaN.
JsGt(x, t) ==
    CASE x.kind = "nan" -> FALSE
      [] x.kind = "inf" -> TRUE
      [] OTHER -> x.n * t.d > t.n * x.d

(***************************************************************************)
(* analyzeImagePixelData                                                   *)
(***************************************************************************)
\* The default of the parameter varianceThreshold.
DefaultVarianceThreshold == 20
\* The default of the parameter coverageThreshold, 0.002.
DefaultCoverageThreshold == [n |-> 1, d |-> 500]

\* The loop's condition read as "a whole pixel is left" (a changed
\* PixelLoopCond).
PixelLoopCondMutWholePixel(i, length) == i + 3 < length

\* i < data.length
PixelLoopCond(i, length) == i < length

\* maxDiff taken over G, B and A (a changed MaxDiff: each index one too far).
MaxDiffMutReadsAlpha(d, i) ==
    LET r == At(d, i + 1)
        g == At(d, i + 2)
        b == At(d, i + 3)
    IN  Max3(AbsDiff(r, g), AbsDiff(r, b), AbsDiff(g, b))

\* maxDiff of the pixel that starts at index i.
MaxDiff(d, i) ==
    LET r == At(d, i)
        g == At(d, i + 1)
        b == At(d, i + 2)
    IN  Max3(AbsDiff(r, g), AbsDiff(r, b), AbsDiff(g, b))

\* for (let i = 0; i < data.length; i += 4): colorPixelCount after the
\* iterations from i on.
RECURSIVE PixelLoop(_, _, _, _)
PixelLoop(d, i, colorPixelCount, varThreshold) ==
    IF PixelLoopCond(i, Len(d))
    THEN PixelLoop(d, i + 4,
                   IF JsGt(MaxDiff(d, i), Num(varThreshold))
                   THEN colorPixelCount + 1 ELSE colorPixelCount,
                   varThreshold)
    ELSE colorPixelCount

analyzeImagePixelData(d, varThreshold, covThreshold) ==
    LET colorPixelCount == PixelLoop(d, 0, 0, varThreshold)
        \* data.length / 4
        totalPixels == [kind |-> "fin", n |-> Len(d), d |-> 4]
        coverage == Div(colorPixelCount, totalPixels.n, totalPixels.d)
    IN  [isColor |-> JsGt(coverage, covThreshold),
         colorPixels |-> colorPixelCount,
         totalPixels |-> totalPixels]

(***************************************************************************)
(* formatPageRanges                                                        *)
(*                                                                         *)
(* A string is the sequence of its characters.                             *)
(***************************************************************************)
Digits == <<"0", "1", "2", "3", "4", "5", "6", "7", "8", "9">>

\* `${n}` for an integer n: its decimal digits, after a minus sign if n < 0.
RECURSIVE NumberToString(_)
NumberToString(n) ==
    IF n < 0 THEN <<"-">> \o NumberToString(0 - n)
    ELSE IF n < 10 THEN <<Digits[n + 1]>>
    ELSE NumberToString(n \div 10) \o <<Digits[(n % 10) + 1]>>

\* pageNumbers.length === 0, tested as "at most one" (a changed IsEmptyArray).
IsEmptyArrayMutAtMostOne(arr) == Len(arr) <= 1

\* pageNumbers.length === 0
IsEmptyArray(arr) == Len(arr) = 0

\* The array spread without the Set (a changed NewSetFrom): repeats stay.
NewSetFromMutKeepsRepeats(arr) == arr

\* [...new Set(pageNumbers)]: the distinct values in order of first occurrence.
RECURSIVE NewSetFrom(_)
NewSetFrom(arr) ==
    IF arr = <<>> THEN EmptySet
    ELSE SetAdd(NewSetFrom(SubSeq(arr, 1, Len(arr) - 1)), arr[Len(arr)])

\* start === prev ? `${start}` : `${start}-${prev}`
RangeToken(start, prev) ==
    IF start = prev THEN NumberToString(start)
    ELSE NumberToString(start) \o <<"-">> \o NumberToString(prev)

\* current === prev + 1
ExtendsRange(current, prev) == current = prev + 1

\* for (let i = 1; i < sorted.length; i++): the ranges, with the final range
\* pushed, after the iterations from i on (i counted from 0).
RECURSIVE RangeLoop(_, _, _, _, _)
RangeLoop(sorted, i, start, prev, ranges) ==
    IF i < Len(sorted)
    THEN LET current == sorted[i + 1]
         IN  IF ExtendsRange(current, prev)
             THEN RangeLoop(sorted, i + 1, start, current, ranges)
             ELSE RangeLoop(sorted, i + 1, current, current,
                            Append(ranges, RangeToken(start, prev)))
    ELSE Append(ranges, RangeToken(start, prev))

\* ranges.join(", ")
RECURSIVE Join(_)
Join(ranges) ==
    IF ranges = <<>> THEN <<>>
    ELSE IF Len(ranges) = 1 THEN ranges[1]
    ELSE ranges[1] \o <<",", " ">> \o Join(Tail(ranges))

formatPageRanges(arr) ==
    IF IsEmptyArray(arr) THEN <<"N", "o", "n", "e">>
    ELSE LET sorted == SortAsc(NewSetFrom(arr))
         IN  Join(RangeLoop(sorted, 1, sorted[1], sorted[1], <<>>))

(***************************************************************************)
(* The caller of calculateSmartSplitStats.                                 *)
(***************************************************************************)
\* An explicit B&W entry for every page of 1..total that has no entry in
\* pages, in ascending order, for the pages from p on.
RECURSIVE MissingAsBW(_, _, _)
MissingAsBW(entries, p, total) ==
    IF p > total THEN <<>>
    ELSE (IF \E k \in 1..Len(entries) : entries[k].pageNumber = p
          THEN <<>>
          ELSE <<[pageNumber |-> p, isColor |-> FALSE]>>)
         \o MissingAsBW(entries, p + 1, total)

\* The caller's state while the pixel classifier is not used.
PixelIdle ==
    /\ data = <<>>
    /\ varianceThreshold = 0
    /\ coverageThreshold = [n |-> 0, d |-> 1]
    /\ pixelOutcome = NoOutcome
    /\ pixelPc = "idle"

\* The caller's state while the range formatter is not used.
FormatIdle ==
    /\ pageNumbers = <<>>
    /\ formatOutcome = NoOutcome
    /\ prevFormatOutcome = NoOutcome
    /\ formatPc = "idle"

\* null
Null == "null"

\* No analyzeFile call occupies the slot.
NoRun == [pc |-> "none", i |-> 0, numPages |-> 0]

\* The slots for analyzeFile calls in flight at the same time.
RunIds == {1, 2}

\* The hook after construction: the useState and useRef initial values.
HookInit ==
    /\ status = "IDLE"
    /\ progress = [current |-> 0, total |-> 0]
    /\ pages = <<>>
    /\ fileName = Null
    /\ error = Null
    /\ abortRef = FALSE
    /\ runs = [r \in RunIds |-> NoRun]
    /\ lastCall = "none"

\* null, as the value of a number | null; a number n is <<n>>.
NoNumber == <<>>

\* The App and the ThumbnailGrid after construction: the useState and
\* useRef initial values.
ViewInit ==
    /\ zoomedPageNumber = NoNumber
    /\ viewCategory = "mixed-color"
    /\ selectedPages = {}
    /\ lastSelectedPageRef = NoNumber

SplitInit ==
    /\ allPagesStatus \in SeqsUpTo(PageStatus, MaxLen)
    /\ totalPages \in 0..MaxTotal
    /\ splitOutcome = NoOutcome
    /\ prevOutcome = NoOutcome
    /\ splitPc = "ready"
    /\ PixelIdle
    /\ FormatIdle
    /\ HookInit
    /\ ViewInit

\* calculateSmartSplitStats(allPagesStatus, totalPages)
SplitCall ==
    /\ splitPc = "ready"
    /\ splitOutcome' = Returned(calculateSmartSplitStats(allPagesStatus, totalPages))
    /\ splitPc' = "called"
    /\ UNCHANGED <<allPagesStatus, totalPages, prevOutcome, pixelVars, formatVars, hookVars, viewVars>>

\* The call made again with two entries of the list exchanged (i = j: the
\* same list again).  Repeated, this reaches every order of the entries.
SplitCallPermuted ==
    /\ splitPc \in {"called", "permuted"}
    /\ \E i, j \in 1..Len(allPagesStatus) :
          /\ i <= j
          /\ allPagesStatus' = [allPagesStatus EXCEPT ![i] = allPagesStatus[j],
                                                      ![j] = allPagesStatus[i]]
    /\ prevOutcome' = splitOutcome
    /\ splitOutcome' = Returned(calculateSmartSplitStats(allPagesStatus', totalPages))
    /\ splitPc' = "permuted"
    /\ UNCHANGED <<totalPages, pixelVars, formatVars, hookVars, viewVars>>

\* The call made again with an explicit B&W entry added for every page of
\* 1..totalPages that had none.
SplitCallFilled ==
    /\ splitPc \in {"called", "permuted"}
    /\ allPagesStatus' = allPagesStatus \o MissingAsBW(allPagesStatus, 1, totalPages)
    /\ prevOutcome' = splitOutcome
    /\ splitOutcome' = Returned(calculateSmartSplitStats(allPagesStatus', totalPages))
    /\ splitPc' = "filled"
    /\ UNCHANGED <<totalPages, pixelVars, formatVars, hookVars, viewVars>>

SplitNext == SplitCall \/ SplitCallPermuted \/ SplitCallFilled

SpecSplit == SplitInit /\ [][SplitNext]_vars

(***************************************************************************)
(* Claims about calculateSmartSplitStats, checked under SpecSplit.         *)
(***************************************************************************)
Elems(arr) == {arr[k] : k \in 1..Len(arr)}

\* The four arrays of the last call's result, as a sequence.
Arrays(r) ==
    <<r.doubleColorSheets, r.doubleBWSheets, r.mixedColorPages, r.mixedBWPages>>

SplitReturned == splitPc # "ready" /\ splitOutcome.kind = "return"

\* The positions of the list that hold an entry for page p.
EntriesOf(entries, p) == {k \in 1..Len(entries) : entries[k].pageNumber = p}

\* The effective status of page p in a list: the isColor of its entry (of
\* its last entry when it has several), B&W when it has none.
EffectiveIn(entries, p) ==
    LET ks == EntriesOf(entries, p)
    IN  IF ks = {} THEN FALSE
        ELSE entries[CHOOSE k \in ks : \A m \in ks : m <= k].isColor

Effective(p) == EffectiveIn(allPagesStatus, p)

UniquePageNumbers(entries) ==
    \A j, k \in 1..Len(entries) : entries[j].pageNumber = entries[k].pageNumber => j = k

\* The odd pages of the sheets that have both pages.
FullSheets == {i \in 1..totalPages : i % 2 = 1 /\ i + 1 <= totalPages}

\* C1: after any call, the four returned arrays are pairwise disjoint and
\* their union is exactly 1..totalPages; an entry whose pageNumber is outside
\* 1..totalPages is in no array.
C1_Partition ==
    SplitReturned =>
        LET a == Arrays(splitOutcome.value)
        IN  /\ \A j, k \in 1..4 : j # k => Elems(a[j]) \cap Elems(a[k]) = {}
            /\ UNION {Elems(a[k]) : k \in 1..4} = 1..totalPages
            /\ \A e \in 1..Len(allPagesStatus) :
                  allPagesStatus[e].pageNumber \notin 1..totalPages =>
                     \A k \in 1..4 : allPagesStatus[e].pageNumber \notin Elems(a[k])

C1_Witness ==
    /\ SplitReturned
    /\ totalPages >= 3
    /\ \E e \in 1..Len(allPagesStatus) : allPagesStatus[e].pageNumber \notin 1..totalPages
    /\ splitOutcome.value.doubleColorSheets # <<>>
    /\ splitOutcome.value.mixedBWPages # <<>>

\* C2: the call made again on the same entries in another order (or in the
\* same order) returns the same four arrays, when the pageNumbers of the list
\* are unique.
C2_OrderIndependent ==
    (splitPc = "permuted" /\ UniquePageNumbers(allPagesStatus)) =>
        splitOutcome = prevOutcome

C2_Witness ==
    /\ splitPc = "permuted"
    /\ UniquePageNumbers(allPagesStatus)
    /\ Len(allPagesStatus) = 3
    /\ allPagesStatus[1].pageNumber > allPagesStatus[2].pageNumber
    /\ allPagesStatus[1].isColor /\ ~allPagesStatus[2].isColor
    /\ splitOutcome.value.mixedColorPages # <<>>

\* C3: the two pages of a sheet that have the same effective status are both
\* in the double array of that status and in no mixed array.
C3_DoubleSheets ==
    SplitReturned =>
        LET r == splitOutcome.value
        IN  \A i \in FullSheets :
               Effective(i) = Effective(i + 1) =>
                  /\ {i, i + 1} \cap (Elems(r.mixedColorPages) \cup Elems(r.mixedBWPages)) = {}
                  /\ Effective(i) =>
                        {i, i + 1} \subseteq Elems(r.doubleColorSheets)
                  /\ ~Effective(i) =>
                        {i, i + 1} \subseteq Elems(r.doubleBWSheets)

C3_Witness ==
    /\ SplitReturned
    /\ totalPages = 4
    /\ Effective(1) /\ Effective(2)
    /\ ~Effective(3) /\ ~Effective(4)
    /\ splitOutcome.value.doubleColorSheets = <<1, 2>>
    /\ splitOutcome.value.doubleBWSheets = <<3, 4>>

\* C4: the two pages of a sheet that differ in effective status are in no
\* double array; the color one is in mixedColorPages, the B&W one in
\* mixedBWPages.
C4_MixedSheets ==
    SplitReturned =>
        LET r == splitOutcome.value
        IN  \A i \in FullSheets :
               Effective(i) # Effective(i + 1) =>
                  /\ {i, i + 1} \cap (Elems(r.doubleColorSheets) \cup Elems(r.doubleBWSheets)) = {}
                  /\ \A p \in {i, i + 1} :
                        /\ Effective(p) => p \in Elems(r.mixedColorPages)
                        /\ ~Effective(p) => p \in Elems(r.mixedBWPages)

C4_Witness ==
    /\ SplitReturned
    /\ totalPages = 4
    /\ Effective(1) /\ ~Effective(2)
    /\ ~Effective(3) /\ Effective(4)
    /\ splitOutcome.value.mixedColorPages = <<1, 4>>
    /\ splitOutcome.value.mixedBWPages = <<2, 3>>

\* C5: with totalPages odd, the last page is in no double array and is in
\* mixedColorPages if its effective status is color, in mixedBWPages
\* otherwise; with totalPages even no page is handled as a single page: a page
\* of a mixed array has its sheet's other page in the other mixed array.
C5_LastSinglePage ==
    SplitReturned =>
        LET r == splitOutcome.value
            other(p) == IF p % 2 = 1 THEN p + 1 ELSE p - 1
        IN  /\ totalPages % 2 = 1 =>
                /\ totalPages \notin Elems(r.doubleColorSheets) \cup Elems(r.doubleBWSheets)
                /\ Effective(totalPages) =>
                      /\ totalPages \in Elems(r.mixedColorPages)
                      /\ totalPages \notin Elems(r.mixedBWPages)
                /\ ~Effective(totalPages) =>
                      /\ totalPages \in Elems(r.mixedBWPages)
                      /\ totalPages \notin Elems(r.mixedColorPages)
            /\ totalPages % 2 = 0 =>
                /\ \A p \in Elems(r.mixedColorPages) : other(p) \in Elems(r.mixedBWPages)
                /\ \A p \in Elems(r.mixedBWPages) : other(p) \in Elems(r.mixedColorPages)

C5_Witness ==
    /\ SplitReturned
    /\ totalPages = 3
    /\ Effective(3)
    /\ splitOutcome.value.mixedColorPages = <<3>>
    /\ splitOutcome.value.doubleBWSheets = <<1, 2>>

\* C6: the call made again with an explicit B&W entry added for every page
\* of 1..totalPages that had no entry returns the same four arrays.
C6_MissingIsBW ==
    splitPc = "filled" => splitOutcome = prevOutcome

C6_Witness ==
    /\ splitPc = "filled"
    /\ Len(allPagesStatus) > MaxLen
    /\ \E k \in 1..Len(allPagesStatus) : allPagesStatus[k].isColor
    /\ splitOutcome.value.mixedBWPages # <<>>
    /\ splitOutcome.value.doubleBWSheets # <<>>

\* C7: each of the four returned arrays is strictly ascending, also when the
\* list has several entries for a page.
C7_StrictlyAscending ==
    SplitReturned =>
        \A k \in 1..4 :
           LET arr == Arrays(splitOutcome.value)[k]
           IN  \A j \in 1..(Len(arr) - 1) : arr[j] < arr[j + 1]

C7_Witness ==
    /\ SplitReturned
    /\ ~UniquePageNumbers(allPagesStatus)
    /\ Len(splitOutcome.value.mixedColorPages) >= 2
    /\ Len(splitOutcome.value.mixedBWPages) >= 2

\* A call that ended by throwing the named error.
Thrown(e) == [kind |-> "throw", error |-> e]

\* The list has a zero, a negative or a repeated pageNumber.
InvalidPageNumbers(entries) ==
    \/ \E k \in 1..Len(entries) : entries[k].pageNumber <= 0
    \/ ~UniquePageNumbers(entries)

\* The entries of the list that decide the result: those with a pageNumber
\* in 1..total that no later entry repeats.
RECURSIVE DecidingEntries(_, _)
DecidingEntries(entries, total) ==
    IF entries = <<>> THEN <<>>
    ELSE (IF /\ Head(entries).pageNumber \in 1..total
             /\ EntriesOf(Tail(entries), Head(entries).pageNumber) = {}
          THEN <<Head(entries)>> ELSE <<>>)
         \o DecidingEntries(Tail(entries), total)

\* C8 as stated: a call whose list has a zero, a negative or a repeated
\* pageNumber ends by throwing InvalidPageNumberError.
C8_RejectsInvalid ==
    (splitPc # "ready" /\ InvalidPageNumbers(allPagesStatus)) =>
        splitOutcome = Thrown("InvalidPageNumberError")

\* C8 amended: a call whose list has a zero, a negative or a repeated
\* pageNumber returns; its result is the result for the list without the
\* entries outside 1..totalPages and without the entries that a later entry
\* of the same pageNumber replaces.
C8_IgnoresInvalid ==
    (splitPc # "ready" /\ InvalidPageNumbers(allPagesStatus)) =>
        /\ splitOutcome.kind = "return"
        /\ UniquePageNumbers(DecidingEntries(allPagesStatus, totalPages))
        /\ splitOutcome.value =
              calculateSmartSplitStats(DecidingEntries(allPagesStatus, totalPages),
                                       totalPages)

C8_Witness ==
    /\ SplitReturned
    /\ totalPages = 2
    /\ Len(allPagesStatus) = 3
    /\ allPagesStatus[1].pageNumber <= 0
    /\ allPagesStatus[2] = [pageNumber |-> 1, isColor |-> FALSE]
    /\ allPagesStatus[3] = [pageNumber |-> 1, isColor |-> TRUE]
    /\ splitOutcome.value.mixedColorPages = <<1>>
    /\ splitOutcome.value.mixedBWPages = <<2>>

(***************************************************************************)
(* The caller of analyzeImagePixelData.                                    *)
(***************************************************************************)
\* The channel values Init draws (a Uint8ClampedArray holds 0..255): their
\* differences are 0, 20, 32 and 52, equal to and above the thresholds drawn.
ChannelValues == {0, 20, 52}
VarianceThresholds == {0 - 1, 0, DefaultVarianceThreshold, 32}
CoverageThresholds ==
    {[n |-> 0 - 1, d |-> 1], [n |-> 0, d |-> 1], DefaultCoverageThreshold,
     [n |-> 1, d |-> 2]}

\* The caller's state while the sheet bucketing is not used.
SplitIdle ==
    /\ allPagesStatus = <<>>
    /\ totalPages = 0
    /\ splitOutcome = NoOutcome
    /\ prevOutcome = NoOutcome
    /\ splitPc = "idle"

PixelInit ==
    /\ data \in SeqsUpTo(ChannelValues, MaxDataLen)
    /\ varianceThreshold \in VarianceThresholds
    /\ coverageThreshold \in CoverageThresholds
    /\ pixelOutcome = NoOutcome
    /\ pixelPc = "ready"
    /\ SplitIdle
    /\ FormatIdle
    /\ HookInit
    /\ ViewInit

\* analyzeImagePixelData(data, varianceThreshold, coverageThreshold)
PixelCall ==
    /\ pixelPc = "ready"
    /\ pixelOutcome' =
          Returned(analyzeImagePixelData(data, varianceThreshold, coverageThreshold))
    /\ pixelPc' = "called"
    /\ UNCHANGED <<data, varianceThreshold, coverageThreshold, splitVars, formatVars, hookVars, viewVars>>

\* analyzeImagePixelData(data): both thresholds take their defaults.
PixelCallDefaults ==
    /\ pixelPc = "ready"
    /\ varianceThreshold' = DefaultVarianceThreshold
    /\ coverageThreshold' = DefaultCoverageThreshold
    /\ pixelOutcome' =
          Returned(analyzeImagePixelData(data, varianceThreshold', coverageThreshold'))
    /\ pixelPc' = "called"
    /\ UNCHANGED <<data, splitVars, formatVars, hookVars, viewVars>>

PixelNext == PixelCall \/ PixelCallDefaults

SpecPixel == PixelInit /\ [][PixelNext]_vars

(***************************************************************************)
(* Claims about analyzeImagePixelData, checked under SpecPixel.            *)
(***************************************************************************)
PixelReturned == pixelPc = "called" /\ pixelOutcome.kind = "return"

\* The starts of the pixels of a buffer, whole or cut short by its end.
PixelStarts(d) == {i \in 0..(Len(d) - 1) : i % 4 = 0}

\* The pixel starting at i has its R, G and B in the buffer and their largest
\* difference is above the threshold t.
ColorPixelAt(d, i, t) ==
    /\ i + 2 < Len(d)
    /\ \E x, y \in {d[i + 1], d[i + 2], d[i + 3]} : x - y > t

\* C9 as stated: a call on a buffer whose length is not a multiple of 4 ends
\* by throwing InvalidBufferError, with no classification.
C9_RejectsMalformed ==
    (pixelPc = "called" /\ Len(data) % 4 # 0) =>
        pixelOutcome = Thrown("InvalidBufferError")

\* C9 amended: a call on a buffer whose length is not a multiple of 4
\* returns a classification: totalPixels is length / 4 (not a whole number),
\* colorPixels counts the whole pixels above the variance threshold and the
\* cut pixel at the end if its R, G and B are all there and above it, and
\* isColor says whether colorPixels / totalPixels is above coverageThreshold.
C9_ClassifiesMalformed ==
    (pixelPc = "called" /\ Len(data) % 4 # 0) =>
        /\ pixelOutcome.kind = "return"
        /\ LET r == pixelOutcome.value
               count == Cardinality({i \in PixelStarts(data) :
                                       ColorPixelAt(data, i, varianceThreshold)})
           IN  /\ r.totalPixels.kind = "fin"
               /\ r.totalPixels.n * 4 = Len(data) * r.totalPixels.d
               /\ r.colorPixels = count
               /\ r.isColor <=>
                     count * 4 * coverageThreshold.d > coverageThreshold.n * Len(data)

C9_Witness ==
    /\ PixelReturned
    /\ Len(data) = 7
    /\ varianceThreshold = 32
    /\ data[1] = data[2] /\ data[2] = data[3]
    /\ data[5] = 52 /\ data[6] = 0
    /\ pixelOutcome.value.colorPixels = 1
    /\ pixelOutcome.value.isColor

\* C10: a call on a buffer with zero pixels returns isColor = false,
\* colorPixels = 0 and totalPixels = 0, whatever the two thresholds.
C10_EmptyBuffer ==
    (pixelPc = "called" /\ Len(data) = 0) =>
        /\ pixelOutcome.kind = "return"
        /\ pixelOutcome.value.isColor = FALSE
        /\ pixelOutcome.value.colorPixels = 0
        /\ pixelOutcome.value.totalPixels.kind = "fin"
        /\ pixelOutcome.value.totalPixels.n = 0

C10_Witness ==
    /\ PixelReturned
    /\ data = <<>>
    /\ varianceThreshold < 0
    /\ coverageThreshold.n < 0
    /\ ~pixelOutcome.value.isColor

\* Every pixel of the buffer has R = G = B.
AllGray(d) ==
    \A i \in PixelStarts(d) :
       i + 2 < Len(d) => (d[i + 1] = d[i + 2] /\ d[i + 2] = d[i + 3])

\* C11: a call on a buffer in which every pixel has R = G = B, of any
\* brightness and alpha, with thresholds that are not negative, returns
\* colorPixels = 0 and isColor = false.
C11_GrayIsNotColor ==
    (/\ pixelPc = "called"
     /\ AllGray(data)
     /\ varianceThreshold >= 0
     /\ coverageThreshold.n >= 0) =>
        /\ pixelOutcome.kind = "return"
        /\ pixelOutcome.value.colorPixels = 0
        /\ pixelOutcome.value.isColor = FALSE

C11_Witness ==
    /\ PixelReturned
    /\ data = <<52, 52, 52, 0, 20, 20, 20, 52>>
    /\ varianceThreshold = 0
    /\ coverageThreshold.n = 0
    /\ pixelOutcome.value.colorPixels = 0
    /\ ~pixelOutcome.value.isColor

\* C12: a call on a buffer of whole pixels returns totalPixels = length / 4
\* and colorPixels = the number of pixels whose largest difference between
\* R, G and B is above varianceThreshold (a difference equal to it does not
\* count; the alpha element is not read).
C12_CountsColorPixels ==
    (pixelPc = "called" /\ Len(data) % 4 = 0) =>
        /\ pixelOutcome.kind = "return"
        /\ pixelOutcome.value.totalPixels.kind = "fin"
        /\ pixelOutcome.value.totalPixels.n =
              (Len(data) \div 4) * pixelOutcome.value.totalPixels.d
        /\ pixelOutcome.value.colorPixels =
              Cardinality({i \in PixelStarts(data) :
                             ColorPixelAt(data, i, varianceThreshold)})

C12_Witness ==
    /\ PixelReturned
    /\ varianceThreshold = 20
    /\ data = <<0, 20, 20, 52, 52, 20, 0, 0>>
    /\ pixelOutcome.value.colorPixels = 1
    /\ pixelOutcome.value.totalPixels.n = 2 * pixelOutcome.value.totalPixels.d

\* C13: a call on a buffer of at least one whole pixel and no cut pixel
\* returns isColor = true exactly when colorPixels / totalPixels is above
\* coverageThreshold = n / d, that is when colorPixels * d > n * totalPixels;
\* a ratio equal to the threshold is B&W.
C13_CoverageStrictlyAbove ==
    (pixelPc = "called" /\ Len(data) % 4 = 0 /\ Len(data) > 0) =>
        /\ pixelOutcome.kind = "return"
        /\ pixelOutcome.value.isColor <=>
              pixelOutcome.value.colorPixels * coverageThreshold.d * 4
                 > coverageThreshold.n * Len(data)

C13_Witness ==
    /\ PixelReturned
    /\ Len(data) = 8
    /\ coverageThreshold = [n |-> 1, d |-> 2]
    /\ pixelOutcome.value.colorPixels = 1
    /\ ~pixelOutcome.value.isColor

(***************************************************************************)
(* The caller of formatPageRanges.                                         *)
(***************************************************************************)
\* The page numbers Init draws: runs of one, two and three numbers, with
\* one and with two digits.
NumberValues == {1, 2, 3, 5, 9, 10, 11}

FormatInit ==
    /\ pageNumbers \in SeqsUpTo(NumberValues, MaxNumbers)
    /\ formatOutcome = NoOutcome
    /\ prevFormatOutcome = NoOutcome
    /\ formatPc = "ready"
    /\ SplitIdle
    /\ PixelIdle
    /\ HookInit
    /\ ViewInit

\* formatPageRanges(pageNumbers)
FormatCall ==
    /\ formatPc = "ready"
    /\ formatOutcome' = Returned(formatPageRanges(pageNumbers))
    /\ formatPc' = "called"
    /\ UNCHANGED <<pageNumbers, prevFormatOutcome, splitVars, pixelVars, hookVars, viewVars>>

\* The call made again with two elements of the array exchanged.
FormatCallReordered ==
    /\ formatPc \in {"called", "reordered"}
    /\ \E i, j \in 1..Len(pageNumbers) :
          /\ i < j
          /\ pageNumbers' = [pageNumbers EXCEPT ![i] = pageNumbers[j],
                                                ![j] = pageNumbers[i]]
    /\ prevFormatOutcome' = formatOutcome
    /\ formatOutcome' = Returned(formatPageRanges(pageNumbers'))
    /\ formatPc' = "reordered"
    /\ UNCHANGED <<splitVars, pixelVars, hookVars, viewVars>>

\* The call made again with one element of the array repeated at its end.
FormatCallRepeated ==
    /\ formatPc \in {"called", "reordered"}
    /\ \E i \in 1..Len(pageNumbers) :
          pageNumbers' = Append(pageNumbers, pageNumbers[i])
    /\ prevFormatOutcome' = formatOutcome
    /\ formatOutcome' = Returned(formatPageRanges(pageNumbers'))
    /\ formatPc' = "repeated"
    /\ UNCHANGED <<splitVars, pixelVars, hookVars, viewVars>>

FormatNext == FormatCall \/ FormatCallReordered \/ FormatCallRepeated

SpecFormat == FormatInit /\ [][FormatNext]_vars

(***************************************************************************)
(* Claims about formatPageRanges, checked under SpecFormat.                *)
(***************************************************************************)
FormatReturned == formatPc # "ready" /\ formatOutcome.kind = "return"

\* The string read back.  The pieces between ", " separators:
RECURSIVE PiecesOf(_, _)
PiecesOf(str, piece) ==
    IF str = <<>> THEN <<piece>>
    ELSE IF Len(str) >= 2 /\ str[1] = "," /\ str[2] = " "
    THEN <<piece>> \o PiecesOf(SubSeq(str, 3, Len(str)), <<>>)
    ELSE PiecesOf(Tail(str), Append(piece, Head(str)))

\* The number a string of decimal digits writes; -1 if it is not one.
RECURSIVE DigitsValue(_, _)
DigitsValue(str, acc) ==
    IF str = <<>> THEN acc
    ELSE IF \E v \in 0..9 : Digits[v + 1] = Head(str)
    THEN DigitsValue(Tail(str),
                     acc * 10 + (CHOOSE v \in 0..9 : Digits[v + 1] = Head(str)))
    ELSE 0 - 1

ReadNumber(str) == IF str = <<>> THEN 0 - 1 ELSE DigitsValue(str, 0)

\* A piece read as "n" or as "first-last".
ReadPiece(piece) ==
    LET dashes == {k \in 1..Len(piece) : piece[k] = "-"}
    IN  IF dashes = {}
        THEN [first |-> ReadNumber(piece), last |-> ReadNumber(piece), dash |-> FALSE]
        ELSE LET k == CHOOSE k \in dashes : TRUE
             IN  [first |-> ReadNumber(SubSeq(piece, 1, k - 1)),
                  last  |-> ReadNumber(SubSeq(piece, k + 1, Len(piece))),
                  dash  |-> TRUE]

ReadRanges(str) ==
    LET pieces == PiecesOf(str, <<>>)
    IN  [k \in 1..Len(pieces) |-> ReadPiece(pieces[k])]

\* C14: the call returns "None" exactly when the array is empty; for an
\* array that is not empty it returns some other string that is not empty.
C14_NoneIffEmpty ==
    formatPc # "ready" =>
        /\ formatOutcome.kind = "return"
        /\ formatOutcome.value = <<"N", "o", "n", "e">> <=> pageNumbers = <<>>
        /\ formatOutcome.value # <<>>

C14_Witness ==
    /\ FormatReturned
    /\ pageNumbers = <<>>
    /\ formatOutcome.value = <<"N", "o", "n", "e">>

\* C15: for an array that is not empty, the tokens of the returned string
\* are the maximal runs of consecutive integers of the set of its values, in
\* ascending order: a run of one is written "n", a longer run "first-last",
\* the tokens cover exactly the values, and a token starts at least 2 after
\* the end of the token before it.  Reordering the array or repeating an
\* element does not change the string.
C15_MaximalRuns ==
    /\ (FormatReturned /\ pageNumbers # <<>>) =>
          LET ranges == ReadRanges(formatOutcome.value)
          IN  /\ \A k \in 1..Len(ranges) :
                    /\ ranges[k].first >= 0
                    /\ ranges[k].dash => ranges[k].first < ranges[k].last
                    /\ ~ranges[k].dash => ranges[k].first = ranges[k].last
              /\ UNION {ranges[k].first..ranges[k].last : k \in 1..Len(ranges)}
                    = Elems(pageNumbers)
              /\ \A k \in 1..(Len(ranges) - 1) :
                    ranges[k + 1].first - ranges[k].last >= 2
    /\ formatPc \in {"reordered", "repeated"} => formatOutcome = prevFormatOutcome

C15_Witness ==
    /\ formatPc = "reordered"
    /\ pageNumbers = <<11, 2, 9, 10>>
    /\ formatOutcome.value = <<"2", ",", " ", "9", "-", "1", "1">>

(***************************************************************************)
(* usePDFAnalyzer, and what the App's components compute from its pages.   *)
(*                                                                         *)
(* A PageData is [pageNumber, isColorDetected, isColorUserForced]; the     *)
(* last is Null, "true" or "false".  The thumbnail and the pixel counts    *)
(* take no part in any decision and are left out.                          *)
(***************************************************************************)
\* A boolean as the value of a boolean | null field, and back.
Forced(b) == IF b THEN "true" ELSE "false"
AsBool(f) == f = "true"

\* smartStats: p.isColorUserForced !== null ? p.isColorUserForced : p.isColorDetected
SimplifiedIsColor(p) ==
    IF p.isColorUserForced # Null THEN AsBool(p.isColorUserForced)
    ELSE p.isColorDetected

\* smartStats: the list mapped to {pageNumber, isColor}.
SimplifiedPages(list) ==
    [k \in 1..Len(list) |->
        [pageNumber |-> list[k].pageNumber, isColor |-> SimplifiedIsColor(list[k])]]

\* smartStats
SmartStats(list) == calculateSmartSplitStats(SimplifiedPages(list), Len(list))

\* ThumbnailGrid: the isColor of a displayed page.
GridIsColor(p) ==
    IF p.isColorUserForced # Null THEN AsBool(p.isColorUserForced)
    ELSE p.isColorDetected

\* ImageViewerModal: the isColor of the zoomed page.
ModalIsColor(p) ==
    IF p.isColorUserForced # Null THEN AsBool(p.isColorUserForced)
    ELSE p.isColorDetected

\* finalIsColor written userForce ? userForce : isDetectedColor (a changed
\* CsvFinalIsColor): a forced false falls back to the detected value.
CsvFinalIsColorMutFalsy(p) ==
    IF p.isColorUserForced = "true" THEN TRUE ELSE p.isColorDetected

\* exportToCSV: finalIsColor
CsvFinalIsColor(p) ==
    LET isDetectedColor == p.isColorDetected
        userForce == p.isColorUserForced
    IN  IF userForce # Null THEN AsBool(userForce) ELSE isDetectedColor

\* exportToCSV: the 'Final Status' column of the page's row.
CsvFinalStatus(p) == IF CsvFinalIsColor(p) THEN "Color" ELSE "B&W"

\* togglePageStatus: isCurrentlyColor
IsCurrentlyColor(p) ==
    IF p.isColorUserForced # Null THEN AsBool(p.isColorUserForced)
    ELSE p.isColorDetected

\* The toggle of a page that has an override removing the override (a
\* changed ToggledPage).
ToggledPageMutClearsOverride(p) ==
    IF p.isColorUserForced # Null
    THEN [p EXCEPT !.isColorUserForced = Null]
    ELSE [p EXCEPT !.isColorUserForced = Forced(~p.isColorDetected)]

\* The toggle negating the detected status (a changed ToggledPage).
ToggledPageMutFromDetected(p) ==
    [p EXCEPT !.isColorUserForced = Forced(~p.isColorDetected)]

\* togglePageStatus: {...p, isColorUserForced: !isCurrentlyColor}
ToggledPage(p) == [p EXCEPT !.isColorUserForced = Forced(~IsCurrentlyColor(p))]

\* togglePageStatus: the updater given to setPages.
TogglePages(prevPages, pageNumber) ==
    [k \in 1..Len(prevPages) |->
        IF prevPages[k].pageNumber # pageNumber THEN prevPages[k]
        ELSE ToggledPage(prevPages[k])]

\* The batch update applied to every page from the first selected one on (a
\* changed BatchTargets).
BatchTargetsMutFromFirst(idsToUpdate, pageNumber) ==
    \E n \in idsToUpdate : n <= pageNumber

\* batchUpdatePageStatus: idsToUpdate.has(p.pageNumber)
BatchTargets(idsToUpdate, pageNumber) == pageNumber \in idsToUpdate

\* batchUpdatePageStatus: the updater given to setPages.
BatchPages(prevPages, idsToUpdate, isColor) ==
    [k \in 1..Len(prevPages) |->
        IF BatchTargets(idsToUpdate, prevPages[k].pageNumber)
        THEN [prevPages[k] EXCEPT !.isColorUserForced = Forced(isColor)]
        ELSE prevPages[k]]

\* The page analyzeFile appends for page i.
NewPage(i, isColor) ==
    [pageNumber |-> i, isColorDetected |-> isColor, isColorUserForced |-> Null]

\* The page numbers a caller passes to togglePageStatus and
\* batchUpdatePageStatus: those a document can have, and one it cannot.
PageArgs == 1..(MaxPages + 1)

\* The loop written with i < numPages: the last page is never rendered (a
\* changed LoopTop).
LoopTopMutStopsBeforeLast(r, i, numPages, statusBefore) ==
    IF i < numPages /\ ~abortRef
    THEN /\ runs' = [runs EXCEPT ![r] = [pc |-> "rendering", i |-> i, numPages |-> numPages]]
         /\ status' = statusBefore
    ELSE /\ runs' = [runs EXCEPT ![r] = NoRun]
         /\ status' = "COMPLETE"

\* The top of analyzeFile's loop for page i, reached with the status as the
\* statements before it left it: the loop goes on to await page i, or it
\* ends (i > numPages, or abortRef.current) and the status becomes COMPLETE.
LoopTop(r, i, numPages, statusBefore) ==
    IF i <= numPages /\ ~abortRef
    THEN /\ runs' = [runs EXCEPT ![r] = [pc |-> "rendering", i |-> i, numPages |-> numPages]]
         /\ status' = statusBefore
    ELSE /\ runs' = [runs EXCEPT ![r] = NoRun]
         /\ status' = "COMPLETE"

\* analyzeFile(file), up to its first await.  The App offers the upload only
\* while the status is IDLE.
AnalyzeFile(r, file) ==
    /\ status = "IDLE"
    /\ runs[r].pc = "none"
    /\ \A q \in RunIds : (q < r) => runs[q].pc # "none"
    /\ abortRef' = FALSE
    /\ status' = "LOADING_PDF"
    /\ error' = Null
    /\ pages' = <<>>
    /\ fileName' = file
    /\ runs' = [runs EXCEPT ![r] = [pc |-> "loading", i |-> 0, numPages |-> 0]]
    /\ lastCall' = "analyzeFile"
    /\ UNCHANGED <<progress, splitVars, pixelVars, formatVars, viewVars>>

\* file.arrayBuffer() and getDocument resolve with a document of numPages
\* pages: the progress and status are set and the loop is entered.
LoadResolves(r, numPages) ==
    /\ runs[r].pc = "loading"
    /\ progress' = [current |-> 0, total |-> numPages]
    /\ LoopTop(r, 1, numPages, "ANALYZING")
    /\ UNCHANGED <<pages, fileName, error, abortRef, lastCall, splitVars, pixelVars, formatVars, viewVars>>

\* The failure caught inside the loop, which then goes on with the same page
\* (a changed AnalyzeFails).
AnalyzeFailsMutKeepsRunning(r) ==
    /\ runs[r].pc \in {"loading", "rendering"}
    /\ error' = "message"
    /\ status' = "ERROR"
    /\ UNCHANGED <<runs, progress, pages, fileName, abortRef, lastCall, splitVars, pixelVars, formatVars, viewVars>>

\* An awaited promise of the call rejects, or the canvas has no context: the
\* catch block.
AnalyzeFails(r) ==
    /\ runs[r].pc \in {"loading", "rendering"}
    /\ error' = "message"
    /\ status' = "ERROR"
    /\ runs' = [runs EXCEPT ![r] = NoRun]
    /\ UNCHANGED <<progress, pages, fileName, abortRef, lastCall, splitVars, pixelVars, formatVars, viewVars>>

\* getPage, render and toBlob resolve for page i, classified isColor: the
\* page is appended, the progress set, and the loop goes to its top for i + 1.
PageResolves(r, isColor) ==
    /\ runs[r].pc = "rendering"
    /\ progress' = [current |-> runs[r].i, total |-> runs[r].numPages]
    /\ pages' = Append(pages, NewPage(runs[r].i, isColor))
    /\ LoopTop(r, runs[r].i + 1, runs[r].numPages, status)
    /\ UNCHANGED <<fileName, error, abortRef, lastCall, splitVars, pixelVars, formatVars, viewVars>>

\* The grid and the zoom modal are rendered.
GridShown == status \in {"ANALYZING", "COMPLETE"}

\* togglePageStatus(pageNumber)
TogglePageStatus(pageNumber) ==
    /\ GridShown
    /\ pages' = TogglePages(pages, pageNumber)
    /\ lastCall' = "togglePageStatus"
    /\ UNCHANGED <<status, progress, fileName, error, abortRef, runs,
                   splitVars, pixelVars, formatVars, viewVars>>

\* batchUpdatePageStatus(pageNumbers, isColor)
BatchUpdatePageStatus(pageNumberSet, isColor) ==
    /\ GridShown
    /\ pages' = BatchPages(pages, pageNumberSet, isColor)
    /\ lastCall' = "batchUpdatePageStatus"
    /\ UNCHANGED <<status, progress, fileName, error, abortRef, runs,
                   splitVars, pixelVars, formatVars, viewVars>>

\* resetAnalysis(), from "Upload New File" or "Try Again".
ResetAnalysis ==
    /\ status \in {"ANALYZING", "COMPLETE", "ERROR"}
    /\ abortRef' = TRUE
    /\ pages' = <<>>
    /\ fileName' = Null
    /\ status' = "IDLE"
    /\ progress' = [current |-> 0, total |-> 0]
    /\ error' = Null
    /\ lastCall' = "resetAnalysis"
    /\ UNCHANGED <<runs, splitVars, pixelVars, formatVars, viewVars>>

Init ==
    /\ HookInit
    /\ ViewInit
    /\ SplitIdle
    /\ PixelIdle
    /\ FormatIdle

Next ==
    \/ \E r \in RunIds : AnalyzeFile(r, "a.pdf")
    \/ \E r \in RunIds, n \in 1..MaxPages : LoadResolves(r, n)
    \/ \E r \in RunIds : AnalyzeFails(r)
    \/ \E r \in RunIds, c \in BOOLEAN : PageResolves(r, c)
    \/ \E n \in PageArgs : TogglePageStatus(n)
    \/ \E ns \in SUBSET PageArgs, c \in BOOLEAN : BatchUpdatePageStatus(ns, c)
    \/ ResetAnalysis

Spec == Init /\ [][Next]_vars

\* The next step of call r: the promise it awaits settles.
RunStep(r) ==
    \/ \E n \in 1..MaxPages : LoadResolves(r, n)
    \/ AnalyzeFails(r)
    \/ \E c \in BOOLEAN : PageResolves(r, c)

\* The hook when every promise a call awaits (arrayBuffer, getDocument,
\* getPage, render, toBlob) settles: a call in flight is not left waiting
\* for ever.  The user's operations are under no such obligation.
SpecFair == Spec /\ \A r \in RunIds : WF_vars(RunStep(r))

(***************************************************************************)
(* Properties of the hook and of what the App computes from its pages.     *)
(***************************************************************************)
\* The effective status of a page as the specification words it:
\* isColorUserForced if present, else isColorDetected.
EffectiveStatus(p) ==
    IF p.isColorUserForced \in {"true", "false"} THEN p.isColorUserForced = "true"
    ELSE p.isColorDetected

\* C16: for every page of the list, the status passed to
\* calculateSmartSplitStats, the status shown in the grid, the status shown
\* in the zoom modal and the 'Final Status' column of the CSV are all the
\* page's effective status (isColorUserForced when non-null, otherwise
\* isColorDetected), so the four agree.
C16_EffectiveStatusEverywhere ==
    /\ Len(SimplifiedPages(pages)) = Len(pages)
    /\ \A k \in 1..Len(pages) :
          LET p == pages[k]
          IN  /\ SimplifiedPages(pages)[k].pageNumber = p.pageNumber
              /\ SimplifiedPages(pages)[k].isColor = EffectiveStatus(p)
              /\ GridIsColor(p) = EffectiveStatus(p)
              /\ ModalIsColor(p) = EffectiveStatus(p)
              /\ CsvFinalStatus(p) = (IF EffectiveStatus(p) THEN "Color" ELSE "B&W")

\* A page detected as color and forced to B&W next to a page with no
\* override, both on display.
C16_Witness ==
    /\ GridShown
    /\ \E k \in 1..Len(pages) :
          pages[k].isColorDetected /\ pages[k].isColorUserForced = "false"
    /\ \E k \in 1..Len(pages) : pages[k].isColorUserForced = Null

\* What C17 says of the step from a list to the list after togglePageStatus(n).
ToggleEffect(before, after, n) ==
    /\ Len(after) = Len(before)
    /\ \A k \in 1..Len(before) :
          IF before[k].pageNumber = n
          THEN /\ after[k].pageNumber = before[k].pageNumber
               /\ after[k].isColorDetected = before[k].isColorDetected
               /\ after[k].isColorUserForced = Forced(~EffectiveStatus(before[k]))
               /\ EffectiveStatus(after[k]) = ~EffectiveStatus(before[k])
          ELSE after[k] = before[k]
    /\ (\A k \in 1..Len(before) : before[k].pageNumber # n) => after = before

\* C17: every togglePageStatus(n) step (a step that leaves togglePageStatus
\* as the last operation called, to begin with) sets the isColorUserForced of page n
\* to the negation of its previous effective status, keeps its pageNumber
\* and isColorDetected, leaves every other page as it was, and changes
\* nothing when n is not in the list; a second toggle of the same page
\* restores the effective status of every page.
C17_ToggleNegatesEffective ==
    [][lastCall' = "togglePageStatus" =>
          \A n \in PageArgs :
              TogglePageStatus(n) =>
                  /\ ToggleEffect(pages, pages', n)
                  /\ ToggleEffect(pages', TogglePages(pages', n), n)
                  /\ \A k \in 1..Len(pages) :
                        EffectiveStatus(TogglePages(pages', n)[k]) = EffectiveStatus(pages[k])
    ]_vars

\* After a toggle: a page whose override equals its detected status (it was
\* toggled at least twice, or toggled away from a batch override).
C17_Witness ==
    /\ lastCall = "togglePageStatus"
    /\ \E k \in 1..Len(pages) :
          /\ pages[k].isColorUserForced # Null
          /\ AsBool(pages[k].isColorUserForced) = pages[k].isColorDetected
    /\ \E k \in 1..Len(pages) : pages[k].isColorUserForced = Null

\* C18: in every step, a page that has an override keeps having one, at the
\* same place of the list and under the same page number, unless the step
\* empties the whole list; and only resetAnalysis and a new analyzeFile
\* empty a list that holds an override.
C18_OverrideNeverCleared ==
    [][\/ /\ Len(pages') >= Len(pages)
          /\ \A k \in 1..Len(pages) :
                /\ pages'[k].pageNumber = pages[k].pageNumber
                /\ pages[k].isColorUserForced # Null =>
                       pages'[k].isColorUserForced \in {"true", "false"}
       \/ /\ pages' = <<>>
          /\ \/ ResetAnalysis
             \/ \E r \in RunIds : AnalyzeFile(r, "a.pdf")
    ]_vars

\* Every page of a complete two-page list has an override, the last of them
\* set or renewed by a toggle.
C18_Witness ==
    /\ lastCall = "togglePageStatus"
    /\ status = "COMPLETE"
    /\ Len(pages) = 2
    /\ \A k \in 1..Len(pages) : pages[k].isColorUserForced # Null

\* C19: every batchUpdatePageStatus(pageNumbers, v) step (a step that leaves
\* batchUpdatePageStatus as the last operation called, to begin with) keeps the length
\* and the order of the list, sets isColorUserForced = v on exactly the
\* pages whose pageNumber is in pageNumbers, leaves every other page
\* unchanged, and applied again to its own result gives that result.
C19_BatchSetsExactlyTargets ==
    [][lastCall' = "batchUpdatePageStatus" =>
          \A ns \in SUBSET PageArgs, v \in BOOLEAN :
              BatchUpdatePageStatus(ns, v) =>
                  /\ Len(pages') = Len(pages)
                  /\ \A k \in 1..Len(pages) :
                        IF pages[k].pageNumber \in ns
                        THEN /\ pages'[k].pageNumber = pages[k].pageNumber
                             /\ pages'[k].isColorDetected = pages[k].isColorDetected
                             /\ pages'[k].isColorUserForced = Forced(v)
                        ELSE pages'[k] = pages[k]
                  /\ BatchPages(pages', ns, v) = pages'
    ]_vars

\* After a batch update: two pages of different page numbers, one with an
\* override and one without.
C19_Witness ==
    /\ lastCall = "batchUpdatePageStatus"
    /\ \E j, k \in 1..Len(pages) :
          /\ pages[j].pageNumber # pages[k].pageNumber
          /\ pages[j].isColorUserForced # Null
          /\ pages[k].isColorUserForced = Null

\* C20: the page numbers of the list are 1-based and unique.
C20_UniquePageNumbers ==
    /\ \A k \in 1..Len(pages) : pages[k].pageNumber >= 1
    /\ \A j, k \in 1..Len(pages) :
          pages[j].pageNumber = pages[k].pageNumber => j = k

\* C21: every step in which the load or a render of a call fails sets the
\* status to ERROR with an error message, appends nothing and ends that
\* call; and only a call that is still in flight (so never one that has
\* failed) appends a page or sets the status to COMPLETE.
C21_FailureEndsRun ==
    [][/\ \A r \in RunIds :
             AnalyzeFails(r) =>
                 /\ status' = "ERROR"
                 /\ error' # Null
                 /\ pages' = pages
                 /\ runs'[r].pc = "none"
       /\ (Len(pages') > Len(pages) \/ (status' = "COMPLETE" /\ status # "COMPLETE")) =>
              \E r \in RunIds : runs[r].pc # "none" /\ runs'[r] # runs[r]
    ]_vars

\* The render of page 2 has failed after page 1 was appended: the error
\* screen, with no call left in flight.
C21_Witness ==
    /\ status = "ERROR"
    /\ error = "message"
    /\ lastCall = "analyzeFile"
    /\ Len(pages) = 1
    /\ progress = [current |-> 1, total |-> 2]
    /\ \A r \in RunIds : runs[r].pc = "none"

\* C22: after any call, a page of 1..totalPages is in doubleColorSheets or
\* mixedColorPages exactly when its effective status is color, and in
\* doubleBWSheets or mixedBWPages exactly when it is B&W (a page without an
\* entry counting as B&W).
C22_BucketKeepsColor ==
    SplitReturned =>
        LET v == splitOutcome.value
            inColor == Elems(v.doubleColorSheets) \cup Elems(v.mixedColorPages)
            inBW == Elems(v.doubleBWSheets) \cup Elems(v.mixedBWPages)
        IN  \A p \in 1..totalPages :
                /\ p \in inColor <=> Effective(p)
                /\ p \in inBW <=> ~Effective(p)

\* A mixed sheet with its color page and its B&W page in their lists, next
\* to a page that has no entry.
C22_Witness ==
    /\ SplitReturned
    /\ splitOutcome.value.mixedColorPages # <<>>
    /\ splitOutcome.value.mixedBWPages # <<>>
    /\ \E i \in FullSheets : Effective(i) # Effective(i + 1)
    /\ \E p \in 1..totalPages : EntriesOf(allPagesStatus, p) = {}

\* C23: after resetAnalysis, as long as no other operation of the hook has
\* been called, the status is IDLE and the page list is empty.
C23_StaysReset ==
    lastCall = "resetAnalysis" => (status = "IDLE" /\ pages = <<>>)

\* C24: whenever the status is COMPLETE, the page list holds exactly the
\* pages 1..progress.total in ascending order, and the four buckets of
\* smartStats are pairwise disjoint and together hold exactly the page
\* numbers of the list.
C24_CompleteHoldsDocument ==
    status = "COMPLETE" =>
        /\ Len(pages) = progress.total
        /\ \A k \in 1..Len(pages) : pages[k].pageNumber = k
        /\ LET a == Arrays(SmartStats(pages))
           IN  /\ \A j, k \in 1..4 : j # k => Elems(a[j]) \cap Elems(a[k]) = {}
               /\ UNION {Elems(a[k]) : k \in 1..4} =
                      {pages[k].pageNumber : k \in 1..Len(pages)}

\* C25: every call of analyzeFile in flight ends, and at the step in which
\* it ends the status becomes COMPLETE or ERROR.  The pages a call appends
\* are the pages 1, 2, ... in this order, each once: the first page it
\* awaits is page 1, the page it appends is the page it awaited, the next
\* page it awaits is the one after, and a call that was not reset sets
\* COMPLETE only in the step that appends the last page of its document.
C25_AnalysisEnds ==
    /\ \A r \in RunIds :
          (runs[r].pc # "none") ~>
              (runs[r].pc = "none" /\ status \in {"COMPLETE", "ERROR"})
    /\ [][\A r \in RunIds :
             /\ (\E n \in 1..MaxPages : LoadResolves(r, n)) =>
                    /\ pages' = pages
                    /\ ~abortRef => (runs'[r].pc = "rendering" /\ runs'[r].i = 1)
             /\ (\E c \in BOOLEAN : PageResolves(r, c)) =>
                    /\ Len(pages') = Len(pages) + 1
                    /\ SubSeq(pages', 1, Len(pages)) = pages
                    /\ pages'[Len(pages')].pageNumber = runs[r].i
                    /\ runs[r].i \in 1..runs[r].numPages
                    /\ runs'[r].pc = "rendering" =>
                           (runs'[r].i = runs[r].i + 1 /\ runs'[r].numPages = runs[r].numPages)
             /\ (runs[r].pc # "none" /\ runs'[r].pc = "none" /\ status' = "COMPLETE" /\ ~abortRef) =>
                    /\ runs[r].pc = "rendering"
                    /\ runs[r].i = runs[r].numPages
                    /\ pages'[Len(pages')].pageNumber = runs[r].numPages
      ]_vars

\* A call that was not reset has appended the pages 1 and 2 of its document
\* and set COMPLETE.
C25_Witness ==
    /\ status = "COMPLETE"
    /\ lastCall = "analyzeFile"
    /\ ~abortRef
    /\ progress = [current |-> 2, total |-> 2]
    /\ Len(pages) = 2
    /\ \A k \in 1..Len(pages) : pages[k].pageNumber = k
    /\ \A r \in RunIds : runs[r].pc = "none"

(***************************************************************************)
(* The App's main view over a finished analysis: the category filter, the  *)
(* zoom modal and the ThumbnailGrid's selection.  SpecView starts where a  *)
(* single analyzeFile call has set COMPLETE and lets the user act on the   *)
(* grid, the sidebar's category selector and the modal.  The modal covers  *)
(* the whole window, so the grid and the sidebar are used while it is      *)
(* closed.                                                                 *)
(***************************************************************************)
\* The largest document SpecView starts from, in pages.
MaxViewPages == 3

\* type ViewCategory
ViewCategories == {"all", "mixed-color", "mixed-bw", "double-color", "double-bw"}

\* filteredPages: the switch on viewCategory.
TargetPageNumbers(stats, category) ==
    CASE category = "mixed-color"  -> stats.mixedColorPages
      [] category = "mixed-bw"     -> stats.mixedBWPages
      [] category = "double-color" -> stats.doubleColorSheets
      [] category = "double-bw"    -> stats.doubleBWSheets
      [] OTHER                     -> <<>>

\* filteredPages
FilteredPages(list, category) ==
    IF category = "all" THEN list
    ELSE LET targetPageNumbers == TargetPageNumbers(SmartStats(list), category)
             targetSet == {targetPageNumbers[k] : k \in 1..Len(targetPageNumbers)}
             Has(p) == p.pageNumber \in targetSet
         IN  SelectSeq(list, Has)

\* list.findIndex(p => p.pageNumber === n), n a number or null: the index
\* from 0 of the first such page, -1 when there is none.
FindIndex(list, n) ==
    LET ks == {k \in 1..Len(list) : n # NoNumber /\ list[k].pageNumber = n[1]}
    IN  IF ks = {} THEN -1
        ELSE (CHOOSE k \in ks : \A j \in ks : k <= j) - 1

\* The pages the ThumbnailGrid is given.
DisplayedPages == FilteredPages(pages, viewCategory)

\* currentZoomedPage is not null: the ImageViewerModal is rendered.
ModalShown ==
    /\ GridShown
    /\ zoomedPageNumber # NoNumber
    /\ \E k \in 1..Len(pages) : pages[k].pageNumber = zoomedPageNumber[1]

\* hasNextZoom
HasNextZoom ==
    /\ zoomedPageNumber # NoNumber
    /\ FindIndex(DisplayedPages, zoomedPageNumber) < Len(DisplayedPages) - 1

\* hasPrevZoom
HasPrevZoom ==
    /\ zoomedPageNumber # NoNumber
    /\ FindIndex(DisplayedPages, zoomedPageNumber) > 0

\* handleNextZoom: the zoomedPageNumber it leaves.
NextZoomed ==
    LET currentIndex == FindIndex(DisplayedPages, zoomedPageNumber)
    IN  IF currentIndex # -1 /\ currentIndex < Len(DisplayedPages) - 1
        THEN <<DisplayedPages[(currentIndex + 1) + 1].pageNumber>>
        ELSE zoomedPageNumber

\* handlePrevZoom: the zoomedPageNumber it leaves.
PrevZoomed ==
    LET currentIndex == FindIndex(DisplayedPages, zoomedPageNumber)
    IN  IF currentIndex > 0
        THEN <<DisplayedPages[(currentIndex - 1) + 1].pageNumber>>
        ELSE zoomedPageNumber

\* The hook's variables that togglePageStatus and batchUpdatePageStatus
\* leave alone.
HookRest == <<status, progress, fileName, error, abortRef, runs>>

\* The sidebar's selector: onCategoryChange(category).
SetViewCategory(category) ==
    /\ GridShown /\ ~ModalShown
    /\ viewCategory' = category
    /\ UNCHANGED <<zoomedPageNumber, selectedPages, lastSelectedPageRef,
                   hookVars, splitVars, pixelVars, formatVars>>

\* The zoom button of a displayed page: onZoom(pageNumber).
OnZoom(pageNumber) ==
    /\ GridShown /\ ~ModalShown
    /\ \E k \in 1..Len(DisplayedPages) : DisplayedPages[k].pageNumber = pageNumber
    /\ zoomedPageNumber' = <<pageNumber>>
    /\ UNCHANGED <<viewCategory, selectedPages, lastSelectedPageRef,
                   hookVars, splitVars, pixelVars, formatVars>>

\* The modal's close button or Escape: onClose().
OnClose ==
    /\ ModalShown
    /\ zoomedPageNumber' = NoNumber
    /\ UNCHANGED <<viewCategory, selectedPages, lastSelectedPageRef,
                   hookVars, splitVars, pixelVars, formatVars>>

\* The modal's next button or ArrowRight, both offered under hasNext:
\* handleNextZoom().
HandleNextZoom ==
    /\ ModalShown
    /\ HasNextZoom
    /\ zoomedPageNumber' = NextZoomed
    /\ UNCHANGED <<viewCategory, selectedPages, lastSelectedPageRef,
                   hookVars, splitVars, pixelVars, formatVars>>

\* The modal's previous button or ArrowLeft, both offered under hasPrev:
\* handlePrevZoom().
HandlePrevZoom ==
    /\ ModalShown
    /\ HasPrevZoom
    /\ zoomedPageNumber' = PrevZoomed
    /\ UNCHANGED <<viewCategory, selectedPages, lastSelectedPageRef,
                   hookVars, splitVars, pixelVars, formatVars>>

\* The modal's status button: onToggleStatus(page.pageNumber).
OnToggleStatus ==
    /\ ModalShown
    /\ pages' = TogglePages(pages, zoomedPageNumber[1])
    /\ lastCall' = "togglePageStatus"
    /\ UNCHANGED <<HookRest, viewVars, splitVars, pixelVars, formatVars>>

\* handlePageClick: the pages of the range between the two indexes added
\* to the selection.
RangeSelection(selection, displayed, start, end) ==
    selection \cup {displayed[i + 1].pageNumber : i \in start..end}

\* handlePageClick(pageNumber, event) on a displayed page.
HandlePageClick(pageNumber, shiftKey, ctrlKey) ==
    /\ GridShown /\ ~ModalShown
    /\ \E k \in 1..Len(DisplayedPages) : DisplayedPages[k].pageNumber = pageNumber
    /\ LET currentIndex == FindIndex(DisplayedPages, <<pageNumber>>)
           lastIndex == FindIndex(DisplayedPages, lastSelectedPageRef)
           start == IF currentIndex <= lastIndex THEN currentIndex ELSE lastIndex
           end == IF currentIndex >= lastIndex THEN currentIndex ELSE lastIndex
       IN  IF /\ shiftKey /\ lastSelectedPageRef # NoNumber
              /\ currentIndex # -1 /\ lastIndex # -1
           THEN /\ selectedPages' = RangeSelection(selectedPages, DisplayedPages, start, end)
                /\ UNCHANGED <<pages, lastCall>>
           ELSE IF ctrlKey
           THEN /\ selectedPages' = IF pageNumber \in selectedPages
                                     THEN selectedPages \ {pageNumber}
                                     ELSE selectedPages \cup {pageNumber}
                /\ UNCHANGED <<pages, lastCall>>
           ELSE /\ pages' = TogglePages(pages, pageNumber)
                /\ lastCall' = "togglePageStatus"
                /\ selectedPages' = {}
    /\ lastSelectedPageRef' = <<pageNumber>>
    /\ UNCHANGED <<HookRest, zoomedPageNumber, viewCategory, splitVars, pixelVars, formatVars>>

\* "Select Visible": handleSelectAllInView()
HandleSelectAllInView ==
    /\ GridShown /\ ~ModalShown
    /\ selectedPages' = {DisplayedPages[k].pageNumber : k \in 1..Len(DisplayedPages)}
    /\ UNCHANGED <<zoomedPageNumber, viewCategory, lastSelectedPageRef,
                   hookVars, splitVars, pixelVars, formatVars>>

\* "Mark Color" / "Mark B&W" of the bar shown while pages are selected:
\* handleBatchUpdate(isColor)
HandleBatchUpdate(isColor) ==
    /\ GridShown /\ ~ModalShown
    /\ selectedPages # {}
    /\ pages' = BatchPages(pages, selectedPages, isColor)
    /\ lastCall' = "batchUpdatePageStatus"
    /\ selectedPages' = {}
    /\ lastSelectedPageRef' = NoNumber
    /\ UNCHANGED <<HookRest, zoomedPageNumber, viewCategory, splitVars, pixelVars, formatVars>>

\* "Clear", shown while pages are selected: clearSelection()
ClearSelection ==
    /\ GridShown /\ ~ModalShown
    /\ selectedPages # {}
    /\ selectedPages' = {}
    /\ lastSelectedPageRef' = NoNumber
    /\ UNCHANGED <<zoomedPageNumber, viewCategory, hookVars, splitVars, pixelVars, formatVars>>

\* The hook when one analyzeFile call on a document of n pages has set
\* COMPLETE, page k detected as detected[k].
AnalysisComplete(n, detected) ==
    /\ status = "COMPLETE"
    /\ progress = [current |-> n, total |-> n]
    /\ pages = [k \in 1..n |-> NewPage(k, detected[k])]
    /\ fileName = "a.pdf"
    /\ error = Null
    /\ abortRef = FALSE
    /\ runs = [r \in RunIds |-> NoRun]
    /\ lastCall = "analyzeFile"

ViewSpecInit ==
    /\ \E n \in 1..MaxViewPages : \E detected \in [1..n -> BOOLEAN] :
          AnalysisComplete(n, detected)
    /\ ViewInit
    /\ SplitIdle
    /\ PixelIdle
    /\ FormatIdle

ViewNext ==
    \/ \E c \in ViewCategories : SetViewCategory(c)
    \/ \E n \in 1..MaxViewPages : OnZoom(n)
    \/ OnClose
    \/ HandleNextZoom
    \/ HandlePrevZoom
    \/ OnToggleStatus
    \/ \E n \in 1..MaxViewPages, shiftKey \in BOOLEAN, ctrlKey \in BOOLEAN :
          HandlePageClick(n, shiftKey, ctrlKey)
    \/ HandleSelectAllInView
    \/ \E c \in BOOLEAN : HandleBatchUpdate(c)
    \/ ClearSelection

SpecView == ViewSpecInit /\ [][ViewNext]_vars

\* C26: while the modal is shown, hasNext means that handleNextZoom moves
\* the zoom to the page after the zoomed one in the filtered view, and
\* hasPrev that handlePrevZoom moves it to the page before.
C26_HasNextMovesZoom ==
    ModalShown =>
        LET k == FindIndex(DisplayedPages, zoomedPageNumber) + 1
        IN  /\ HasNextZoom =>
                  /\ k \in 1..(Len(DisplayedPages) - 1)
                  /\ NextZoomed = <<DisplayedPages[k + 1].pageNumber>>
                  /\ NextZoomed # zoomedPageNumber
            /\ HasPrevZoom =>
                  /\ k \in 2..Len(DisplayedPages)
                  /\ PrevZoomed = <<DisplayedPages[k - 1].pageNumber>>
                  /\ PrevZoomed # zoomedPageNumber

\* C27: every selected page is one of the displayed pages.
C27_SelectionDisplayed ==
    selectedPages \subseteq {DisplayedPages[k].pageNumber : k \in 1..Len(DisplayedPages)}

====
